---- MODULE Spec2Model ----
(***************************************************************************)
(* Render-job supervisor of SessionRMarkdown.cpp: the RenderRmd job, the   *)
(* global slot s_pCurrentRender_, the render_rmd / terminate_render_rmd    *)
(* RPC handlers and the process callbacks that drive a job.                *)
(*                                                                         *)
(* The session is single-threaded: RPC handlers and the callbacks of the   *)
(* process supervisor run to completion on the main thread, so each one is *)
(* one atomic action.  Strings are sequences of one-character strings.     *)
(***************************************************************************)
EXTENDS Integers, Sequences, FiniteSets, TLC

VARIABLES
    jobs,               \* every RenderRmd object created so far, by job number
    proc,               \* per job: the child process and the callback closure
    s_pCurrentRender_,  \* the current-job slot: 0 (null) or a job number
    events,             \* the client event queue, in publication order
    rpc,                \* the response of the last RPC handled
    disk,               \* the files that exist on disk
    request,            \* the URI of an HTTP request for rendered output
    response,           \* what the output handler answered to it
    document,           \* an artifact served through the MathjaxFilter
    options,            \* the platform and program mode of the session
    served              \* the artifact as the filter passes it on

httpVars == <<request, response>>
filterVars == <<document, options, served>>

vars == <<jobs, proc, s_pCurrentRender_, events, rpc, disk,
          request, response, document, options, served>>

-----------------------------------------------------------------------------
(* Bounds *)

\* Length of the client event queue the model explores.
MaxEvents == 6

\* Length of the aliased output file paths whose URLs are requested.
MaxPathLen == 3
MaxDocLen == 3
MaxScanLines == 2

-----------------------------------------------------------------------------
(* Program constants and the values the environment supplies *)

kCompileOutputNormal == 0
kCompileOutputError == 1

completeMarker ==
    <<"O","u","t","p","u","t"," ","c","r","e","a","t","e","d",":"," ">>

\* The user's home directory, the document rendered and the files the
\* renderer may have written.
HomePath == <<"/","h">>
TargetFiles == { <<"/","h","/","t">> }
Files == { <<"/","h","/","a">> }

\* Chunks the child process writes to stdout or stderr.
Chunks == { completeMarker \o <<"a","\n">>, <<"x","\n">> }

ExitStatuses == {0, 1}

\* Outcome of launching: the R binary is not found, the spawn fails, or the
\* child runs.
Launches == {"ok", "norscript", "spawnfail"}

rScriptError == <<"R binary not found">>

FormatOk == [format_name |-> "html_document", format_options |-> "options"]
FormatEmpty == [format_name |-> "", format_options |-> "null"]

-----------------------------------------------------------------------------
(* Strings and paths *)

isspace(c) == c \in {" ", "\t", "\n", "\r"}

starts_with(s, prefix) ==
    /\ Len(s) >= Len(prefix)
    /\ SubSeq(s, 1, Len(prefix)) = prefix

RECURSIVE trim_left(_)
trim_left(s) ==
    IF s # <<>> /\ isspace(Head(s)) THEN trim_left(Tail(s)) ELSE s

RECURSIVE trim_right(_)
trim_right(s) ==
    IF s # <<>> /\ isspace(s[Len(s)])
    THEN trim_right(SubSeq(s, 1, Len(s) - 1))
    ELSE s

\* boost::algorithm::trim removes white space at both ends.
trim(s) == trim_right(trim_left(s))

\* Position of the first line feed of s, 0 when there is none.
FirstNewline(s) ==
    IF \E i \in 1..Len(s) : s[i] = "\n"
    THEN CHOOSE i \in 1..Len(s) :
            s[i] = "\n" /\ \A k \in 1..(i - 1) : s[k] # "\n"
    ELSE 0

\* The lines successive std::getline calls read from s.
RECURSIVE getlines(_)
getlines(s) ==
    IF s = <<>> THEN <<>>
    ELSE LET i == FirstNewline(s) IN
         IF i = 0 THEN <<s>>
         ELSE <<SubSeq(s, 1, i - 1)>> \o getlines(SubSeq(s, i + 1, Len(s)))

LastSlash(p) ==
    IF \E i \in 1..Len(p) : p[i] = "/"
    THEN CHOOSE i \in 1..Len(p) :
            p[i] = "/" /\ \A k \in (i + 1)..Len(p) : p[k] # "/"
    ELSE 0

\* FilePath::parent
parent(p) == SubSeq(p, 1, LastSlash(p) - 1)

\* FilePath::complete: an absolute path as it is, a relative one under base.
complete(base, path) ==
    IF path # <<>> /\ Head(path) = "/" THEN path ELSE base \o <<"/">> \o path

\* FilePath::exists
exists(p) == p \in disk

\* module_context::createAliasedPath: a path under the home directory is
\* written with a leading ~.
createAliasedPath(p) ==
    IF starts_with(p, HomePath \o <<"/">>)
    THEN <<"~">> \o SubSeq(p, Len(HomePath) + 1, Len(p))
    ELSE p

-----------------------------------------------------------------------------
(* URLs *)

kRmdOutput == <<"r","m","d","_","o","u","t","p","u","t">>
kRmdOutputLocation == <<"/">> \o kRmdOutput \o <<"/">>
kMathjaxSegment == <<"m","a","t","h","j","a","x">>

\* The build is not a Windows build.
WIN32 == FALSE

\* The characters of the model that http::util::urlEncode escapes, with the
\* two hexadecimal digits of each; letters, digits and ~ are left alone.
EscapeOf ==
    [c \in {"/", "%", " ", "+"} |->
        CASE c = "/" -> <<"2", "F">>
          [] c = "%" -> <<"2", "5">>
          [] c = " " -> <<"2", "0">>
          [] c = "+" -> <<"2", "B">>]

\* http::util::urlEncode(in, false)
RECURSIVE urlEncode(_)
urlEncode(in) ==
    IF in = <<>> THEN <<>>
    ELSE (IF Head(in) \in DOMAIN EscapeOf
          THEN <<"%">> \o EscapeOf[Head(in)]
          ELSE <<Head(in)>>) \o urlEncode(Tail(in))

\* http::util::urlDecode: %XX is the character escaped as XX, + is a space.
RECURSIVE urlDecode(_)
urlDecode(in) ==
    IF in = <<>> THEN <<>>
    ELSE IF /\ Head(in) = "%"
            /\ Len(in) >= 3
            /\ \E c \in DOMAIN EscapeOf : EscapeOf[c] = <<in[2], in[3]>>
         THEN <<CHOOSE c \in DOMAIN EscapeOf : EscapeOf[c] = <<in[2], in[3]>>>>
                \o urlDecode(SubSeq(in, 4, Len(in)))
         ELSE <<IF Head(in) = "+" THEN " " ELSE Head(in)>>
                \o urlDecode(Tail(in))

\* The output URL with the output file encoded once only.
outputUrlEncodedOnce(outputFile) ==
    kRmdOutput \o <<"/">> \o urlEncode(outputFile) \o <<"/">>

\* The output URL that terminate(bool) publishes for the aliased output file.
outputUrl(outputFile) ==
    LET url(file) ==
            LET twice == urlEncode(urlEncode(file))
                encodedOutputFile == IF WIN32 THEN urlEncode(twice) ELSE twice
            IN kRmdOutput \o <<"/">> \o encodedOutputFile \o <<"/">>
    IN \* outputFile is a local variable: it has one value, computed once
       CHOOSE u \in {url(file) : file \in {outputFile}} : TRUE

-----------------------------------------------------------------------------
(* RenderRmd.  A method is an operator on st = [id, job, proc, events]:    *)
(* the job's number, its fields, its child process and the event queue.    *)

enqueClientEvent(st, event) == [st EXCEPT !.events = Append(@, event)]

enqueRenderOutput(st, type, output) ==
    enqueClientEvent(st, [event |-> "rmd_render_output", job |-> st.id,
                          type |-> type, output |-> output])

\* A constructor that takes the termination flag over from the job in the slot.
RenderRmdCtorSharedFlag(targetFile) ==
    [isRunning_ |-> FALSE,
     terminationRequested_ |->
        s_pCurrentRender_ # 0 /\ jobs[s_pCurrentRender_].terminationRequested_,
     targetFile_ |-> targetFile,
     outputFile_ |-> <<>>,
     outputFormat_ |-> [format_name |-> "", format_options |-> "null"]]

RenderRmdCtor(targetFile) ==
    [isRunning_ |-> FALSE,
     terminationRequested_ |-> FALSE,
     targetFile_ |-> targetFile,
     outputFile_ |-> <<>>,
     outputFormat_ |-> [format_name |-> "", format_options |-> "null"]]

getOutputFormat(formatOk) == IF formatOk THEN FormatOk ELSE FormatEmpty

\* terminate without the assignment to isRunning_.
terminateStillRunning(st, succeeded) ==
    enqueClientEvent(st,
        [event |-> "rmd_render_completed", job |-> st.id,
         succeeded |-> succeeded,
         target_file |-> createAliasedPath(st.job.targetFile_),
         output_file |-> createAliasedPath(st.job.outputFile_),
         output_url |-> outputUrl(createAliasedPath(st.job.outputFile_)),
         output_format |-> st.job.outputFormat_])

terminate(st, succeeded) ==
    LET s1 == [st EXCEPT !.job.isRunning_ = FALSE] IN
    enqueClientEvent(s1,
        [event |-> "rmd_render_completed", job |-> s1.id,
         succeeded |-> succeeded,
         target_file |-> createAliasedPath(s1.job.targetFile_),
         output_file |-> createAliasedPath(s1.job.outputFile_),
         output_url |-> outputUrl(createAliasedPath(s1.job.outputFile_)),
         output_format |-> s1.job.outputFormat_])

\* terminateWithError with its two statements in the other order.
terminateThenMessage(st, message) ==
    enqueRenderOutput(terminate(st, FALSE), kCompileOutputError, message)

terminateWithMessage(st, message) ==
    terminate(enqueRenderOutput(st, kCompileOutputError, message), FALSE)

terminateWithError(st, error) ==
    terminateWithMessage(st,
        <<"Error rendering R Markdown for ">>
            \o createAliasedPath(st.job.targetFile_) \o <<" ">> \o error)

\* ProcessSupervisor::runProgram: the child runs and its callbacks will be
\* called, or the spawn fails and an Error is returned to the caller.
runProgram(st, spawnOk) ==
    [st EXCEPT !.proc.status = IF spawnOk THEN "live" ELSE "spawnfailed"]

performRender(st, launch) ==
    IF launch = "norscript"
    THEN terminateWithError([st EXCEPT !.proc.status = "norscript"],
                            rScriptError)
    ELSE runProgram(st, launch = "ok")   \* the Error returned is dropped

\* start with the started event published after performRender.
startEventLast(st, formatOk, launch) ==
    LET s1 == [st EXCEPT !.job.outputFormat_ = getOutputFormat(formatOk),
                         !.job.isRunning_ = TRUE]
        s2 == performRender(s1, launch)
    IN enqueClientEvent(s2,
           [event |-> "rmd_render_started", job |-> s2.id,
            output_format |-> s2.job.outputFormat_,
            target_file |-> createAliasedPath(s2.job.targetFile_)])

\* start that gives up when the output format cannot be found.
startNeedsFormat(st, formatOk, launch) ==
    LET s1 == [st EXCEPT !.job.outputFormat_ = getOutputFormat(formatOk)]
        s2 == enqueClientEvent(s1,
                  [event |-> "rmd_render_started", job |-> s1.id,
                   output_format |-> s1.job.outputFormat_,
                   target_file |-> createAliasedPath(s1.job.targetFile_)])
        s3 == [s2 EXCEPT !.job.isRunning_ = TRUE]
    IN IF formatOk THEN performRender(s3, launch)
       ELSE terminateWithError([s3 EXCEPT !.proc.status = "norscript"],
                               <<"no output format">>)

start(st, formatOk, launch) ==
    LET s1 == [st EXCEPT !.job.outputFormat_ = getOutputFormat(formatOk)]
        s2 == enqueClientEvent(s1,
                  [event |-> "rmd_render_started", job |-> s1.id,
                   output_format |-> s1.job.outputFormat_,
                   target_file |-> createAliasedPath(s1.job.targetFile_)])
        s3 == [s2 EXCEPT !.job.isRunning_ = TRUE]
    IN performRender(s3, launch)

create(id, targetFile, formatOk, launch) ==
    start([id |-> id,
           job |-> RenderRmdCtor(targetFile),
           proc |-> [status |-> "none", pAllOutput |-> <<>>,
                     stopped |-> FALSE, exitStatus |-> 0],
           events |-> events],
          formatOk, launch)

\* onRenderContinue that never asks the supervisor to stop.
onRenderContinueAlways(job) == TRUE

onRenderContinue(job) == ~job.terminationRequested_

\* onRenderOutput that publishes the chunk without buffering it.
onRenderOutputUnbuffered(st, type, output) ==
    enqueRenderOutput(st, type, output)

onRenderOutput(st, type, output) ==
    enqueRenderOutput([st EXCEPT !.proc.pAllOutput = @ \o output],
                      type, output)

\* The while loop over std::getline: the first line that starts with the
\* marker sets outputFile_ and ends the loop.
RECURSIVE scanLines(_, _, _)
scanLines(lines, targetFile, outputFile) ==
    IF lines = <<>> THEN outputFile
    ELSE IF starts_with(Head(lines), completeMarker)
         THEN LET fileName ==
                    trim(SubSeq(Head(lines), Len(completeMarker) + 1,
                                Len(Head(lines))))
              IN complete(parent(targetFile), fileName)
         ELSE scanLines(Tail(lines), targetFile, outputFile)

\* onRenderCompleted that tests the exit status only.
onRenderCompletedExitOnly(st, exitStatus) ==
    LET outputFile == scanLines(getlines(st.proc.pAllOutput),
                                st.job.targetFile_, st.job.outputFile_)
        s1 == [st EXCEPT !.job.outputFile_ = outputFile]
    IN terminate(s1, exitStatus = 0)

\* onRenderCompleted that keeps the output file of a successful render only.
onRenderCompletedKeepOnSuccess(st, exitStatus) ==
    LET outputFile == scanLines(getlines(st.proc.pAllOutput),
                                st.job.targetFile_, st.job.outputFile_)
        succeeded == exitStatus = 0 /\ exists(outputFile)
        s1 == [st EXCEPT !.job.outputFile_ =
                            IF succeeded THEN outputFile ELSE <<>>]
    IN terminate(s1, succeeded)

onRenderCompleted(st, exitStatus) ==
    LET outputFile == scanLines(getlines(st.proc.pAllOutput),
                                st.job.targetFile_, st.job.outputFile_)
        s1 == [st EXCEPT !.job.outputFile_ = outputFile]
    IN terminate(s1, exitStatus = 0 /\ exists(outputFile))

-----------------------------------------------------------------------------
(* The supervisor and the RPC handlers *)

isRenderRunning ==
    s_pCurrentRender_ # 0 /\ jobs[s_pCurrentRender_].isRunning_

View(j) == [id |-> j, job |-> jobs[j], proc |-> proc[j], events |-> events]

\* Write back what a method of job j did.
Commit(j, st) ==
    /\ jobs' = [jobs EXCEPT ![j] = st.job]
    /\ proc' = [proc EXCEPT ![j] = st.proc]
    /\ events' = st.events

\* render_rmd without the test of the current job.
renderRmdUnguarded(paramsOk, file, formatOk, launch) ==
    /\ UNCHANGED disk
    /\ IF ~paramsOk
       THEN /\ rpc' = [method |-> "render_rmd", error |-> TRUE,
                       result |-> "none"]
            /\ UNCHANGED <<jobs, proc, s_pCurrentRender_, events>>
       ELSE /\ Len(events) + 3 <= MaxEvents
            /\ LET st == create(Len(jobs) + 1, file, formatOk, launch) IN
               /\ jobs' = Append(jobs, st.job)
               /\ proc' = Append(proc, st.proc)
               /\ events' = st.events
               /\ s_pCurrentRender_' = Len(jobs) + 1
            /\ rpc' = [method |-> "render_rmd", error |-> FALSE,
                       result |-> TRUE]

\* render_rmd
renderRmd(paramsOk, file, formatOk, launch) ==
    /\ UNCHANGED disk
    /\ IF ~paramsOk
       THEN /\ rpc' = [method |-> "render_rmd", error |-> TRUE,
                       result |-> "none"]
            /\ UNCHANGED <<jobs, proc, s_pCurrentRender_, events>>
       ELSE IF isRenderRunning
       THEN /\ rpc' = [method |-> "render_rmd", error |-> FALSE,
                       result |-> FALSE]
            /\ UNCHANGED <<jobs, proc, s_pCurrentRender_, events>>
       ELSE /\ Len(events) + 3 <= MaxEvents
            /\ LET st == create(Len(jobs) + 1, file, formatOk, launch) IN
               /\ jobs' = Append(jobs, st.job)
               /\ proc' = Append(proc, st.proc)
               /\ events' = st.events
               /\ s_pCurrentRender_' = Len(jobs) + 1
            /\ rpc' = [method |-> "render_rmd", error |-> FALSE,
                       result |-> TRUE]

\* terminate_render_rmd that tests the slot only, not isRunning.
terminateRenderRmdAnyJob ==
    /\ IF s_pCurrentRender_ # 0
       THEN jobs' = [jobs EXCEPT
                        ![s_pCurrentRender_].terminationRequested_ = TRUE]
       ELSE UNCHANGED jobs
    /\ rpc' = [method |-> "terminate_render_rmd", error |-> FALSE,
               result |-> "none"]
    /\ UNCHANGED <<proc, s_pCurrentRender_, events, disk>>

\* terminate_render_rmd
terminateRenderRmd ==
    /\ IF isRenderRunning
       THEN jobs' = [jobs EXCEPT
                        ![s_pCurrentRender_].terminationRequested_ = TRUE]
       ELSE UNCHANGED jobs
    /\ rpc' = [method |-> "terminate_render_rmd", error |-> FALSE,
               result |-> "none"]
    /\ UNCHANGED <<proc, s_pCurrentRender_, events, disk>>

-----------------------------------------------------------------------------
(* The process supervisor calls the callbacks of a child that is running *)

ChildRunning(j) == j \in 1..Len(proc) /\ proc[j].status = "live"

\* cb.onContinue: a false answer makes the supervisor terminate the child.
PollContinue(j) ==
    /\ ChildRunning(j)
    /\ proc' = [proc EXCEPT ![j].stopped = @ \/ ~onRenderContinue(jobs[j])]
    /\ UNCHANGED <<jobs, s_pCurrentRender_, events, rpc, disk>>

\* cb.onStdout and cb.onStderr
ChildOutput(j, type, output) ==
    /\ ChildRunning(j)
    /\ Len(events) + 2 <= MaxEvents
    /\ Commit(j, onRenderOutput(View(j), type, output))
    /\ UNCHANGED <<s_pCurrentRender_, rpc, disk>>

\* cb.onStdout: onRenderOutput bound to kCompileOutputNormal
onStdout(j, output) == ChildOutput(j, kCompileOutputNormal, output)

\* cb.onStderr: onRenderOutput bound to kCompileOutputError
onStderr(j, output) == ChildOutput(j, kCompileOutputError, output)

\* cb.onExit
ChildExit(j, exitStatus) ==
    /\ ChildRunning(j)
    /\ Commit(j, onRenderCompleted(
                    [View(j) EXCEPT !.proc.status = "exited",
                                    !.proc.exitStatus = exitStatus],
                    exitStatus))
    /\ UNCHANGED <<s_pCurrentRender_, rpc, disk>>

-----------------------------------------------------------------------------

\* No document is being served.
noOptions == [programMode |-> "server"]

notServed == [done |-> FALSE, out |-> <<>>]

\* No request has been made.
noRequest == [outputFile |-> <<>>, uri |-> <<>>]

\* The response before the handler has run.
noResponse ==
    [kind |-> "none", status |-> 0, message |-> <<>>,
     file |-> <<>>, cache |-> "none", filter |-> FALSE]

Init ==
    /\ jobs = <<>>
    /\ proc = <<>>
    /\ s_pCurrentRender_ = 0
    /\ events = <<>>
    /\ rpc = [method |-> "none", error |-> FALSE, result |-> "none"]
    /\ disk \in SUBSET Files
    /\ request = noRequest /\ response = noResponse
    /\ document = <<>> /\ options = noOptions /\ served = notServed

Next ==
    \/ \E paramsOk \in BOOLEAN, file \in TargetFiles,
          formatOk \in BOOLEAN, launch \in Launches :
            /\ renderRmd(paramsOk, file, formatOk, launch)
            /\ UNCHANGED <<httpVars, filterVars>>
    \/ terminateRenderRmd /\ UNCHANGED <<httpVars, filterVars>>
    \/ \E j \in 1..Len(jobs) :
            PollContinue(j) /\ UNCHANGED <<httpVars, filterVars>>
    \/ \E j \in 1..Len(jobs), output \in Chunks :
            onStdout(j, output) /\ UNCHANGED <<httpVars, filterVars>>
    \/ \E j \in 1..Len(jobs), output \in Chunks :
            onStderr(j, output) /\ UNCHANGED <<httpVars, filterVars>>
    \/ \E j \in 1..Len(jobs), exitStatus \in ExitStatuses :
            ChildExit(j, exitStatus) /\ UNCHANGED <<httpVars, filterVars>>

Spec == Init /\ [][Next]_vars

\* The process supervisor reports the exit of every child it runs.
AnyChildExit ==
    \E j \in 1..Len(jobs), exitStatus \in ExitStatuses :
        ChildExit(j, exitStatus) /\ UNCHANGED <<httpVars, filterVars>>

FairSpec == Spec /\ WF_vars(AnyChildExit)

-----------------------------------------------------------------------------
(* The output resource handler *)

npos == -1

\* std::string::find(c, from): the first position from `from` on (counted
\* from 0) that holds c, npos when there is none.
find(str, c, from) ==
    IF \E i \in from..(Len(str) - 1) : str[i + 1] = c
    THEN CHOOSE i \in from..(Len(str) - 1) :
            str[i + 1] = c /\ \A k \in from..(i - 1) : str[k + 1] # c
    ELSE npos

\* std::string::substr(pos, n), for pos <= length.
substr(str, pos, n) ==
    SubSeq(str, pos + 1, IF pos + n > Len(str) THEN Len(str) ELSE pos + n)

\* sizeof(kMathjaxSegment): the characters and the terminating NUL.
sizeofMathjaxSegment == Len(kMathjaxSegment) + 1

\* module_context::resolveAliasedPath
resolveAliasedPath(aliased) ==
    IF aliased = <<"~">> THEN HomePath
    ELSE IF starts_with(aliased, <<"~", "/">>)
         THEN HomePath \o Tail(aliased)
         ELSE aliased

\* FilePath::childPath: a relative path under the directory.
childPath(dir, path) ==
    IF path # <<>> /\ Head(path) = "/" THEN <<>> ELSE dir \o <<"/">> \o path

\* mathJaxDirectory(): where the rmarkdown package keeps MathJax.
mathJaxDirectory == <<"/", "m">>

\* The HTTP layer decodes the URI once before it calls the handler.
HttpRequest(uri) == [uri |-> uri, path |-> urlDecode(uri)]

\* http::util::pathAfterPrefix
pathAfterPrefix(req, prefix) ==
    IF starts_with(req.path, prefix)
    THEN SubSeq(req.path, Len(prefix) + 1, Len(req.path))
    ELSE req.path

\* What the handler does to the http::Response.
setError(status, message) ==
    [kind |-> "error", status |-> status, message |-> message,
     file |-> <<>>, cache |-> "none", filter |-> FALSE]

setFile(file, noCache, filter) ==
    [kind |-> "file", status |-> 200, message |-> <<>>,
     file |-> file, cache |-> IF noCache THEN "nocache" ELSE "none",
     filter |-> filter]

setCacheableFile(file) ==
    [kind |-> "file", status |-> 200, message |-> <<>>,
     file |-> file, cache |-> "cacheable", filter |-> FALSE]

\* std::out_of_range leaves the handler: no response has been set.
outOfRange ==
    [kind |-> "exception", status |-> 0, message |-> <<"std::out_of_range">>,
     file |-> <<>>, cache |-> "none", filter |-> FALSE]

NotFound == 404

\* A handler that renders every artifact and resource through the filter.
serveResourceAlwaysFiltered(outputFilePath, path) ==
    IF path = <<>>
    THEN setFile(outputFilePath, TRUE, TRUE)
    ELSE setFile(childPath(parent(outputFilePath), path), TRUE, TRUE)

\* The handler once the output file is known to exist: the artifact itself, a
\* MathJax resource or a resource next to the artifact.
serveResource(outputFilePath, path) ==
    IF path = <<>>
    THEN setFile(outputFilePath, TRUE, TRUE)
    ELSE IF starts_with(path, kMathjaxSegment)
    THEN IF sizeofMathjaxSegment > Len(path)
         THEN outOfRange
         ELSE setCacheableFile(
                complete(mathJaxDirectory,
                         substr(path, sizeofMathjaxSegment, Len(path))))
    ELSE setCacheableFile(childPath(parent(outputFilePath), path))

\* A handler that does not look whether the output file exists.
handleRmdOutputRequestUnchecked(req) ==
    LET path == pathAfterPrefix(req, kRmdOutputLocation)
        pos == find(path, "/", 1)
    IN
    IF pos = npos
    THEN setError(NotFound, <<"No output file found">>)
    ELSE serveResource(resolveAliasedPath(urlDecode(substr(path, 0, pos))),
                       substr(path, pos + 1, Len(path)))

handleRmdOutputRequest(req) ==
    LET path == pathAfterPrefix(req, kRmdOutputLocation)
        pos == find(path, "/", 1)
    IN
    IF pos = npos
    THEN setError(NotFound, <<"No output file found">>)
    ELSE
    LET outputFile == urlDecode(substr(path, 0, pos))
        outputFilePath == resolveAliasedPath(outputFile)
    IN
    IF ~exists(outputFilePath)
    THEN setError(NotFound, outputFile \o <<" not found">>)
    ELSE serveResource(outputFilePath, substr(path, pos + 1, Len(path)))

\* The aliased output file paths of the model.
PathChars == {"a", "/", "%", " ", "+", "~"}

AliasedPaths ==
    UNION {[1..n -> PathChars] : n \in 0..MaxPathLen}

\* What a client asks for below the output URL: the artifact itself, a
\* MathJax resource, the MathJax segment alone, a resource whose first segment
\* has the MathJax segment as a prefix, and a resource next to the artifact.
ResourcePaths ==
    { <<>>,
      kMathjaxSegment \o <<"/", "M">>,
      kMathjaxSegment,
      kMathjaxSegment \o <<"x", "/", "M">>,
      <<"i">> }

\* The client resolves the output URL against the root of the session.
ClientUri(url) == <<"/">> \o url

\* The requests made: the URI is the output URL published for outputFile
\* followed by a resource path, or that output URL without its final slash.
Requests ==
    {[outputFile |-> p, uri |-> ClientUri(outputUrl(p)) \o r] :
        p \in AliasedPaths, r \in ResourcePaths}
    \cup {[outputFile |-> p,
           uri |-> kRmdOutputLocation \o urlEncode(urlEncode(p))] :
              p \in AliasedPaths}

\* The files that may exist when output is requested.
HttpFiles == Files \cup { <<"/", "a">> }

HttpGet ==
    /\ response = noResponse
    /\ response' = handleRmdOutputRequest(HttpRequest(request.uri))
    /\ UNCHANGED <<jobs, proc, s_pCurrentRender_, events, rpc, disk,
                   request, filterVars>>

InitHttp ==
    /\ jobs = <<>>
    /\ proc = <<>>
    /\ s_pCurrentRender_ = 0
    /\ events = <<>>
    /\ rpc = [method |-> "none", error |-> FALSE, result |-> "none"]
    /\ disk \in SUBSET HttpFiles
    /\ request \in Requests
    /\ response = noResponse
    /\ document = <<>> /\ options = noOptions /\ served = notServed

NextHttp == HttpGet

SpecHttp == InitHttp /\ [][NextHttp]_vars

-----------------------------------------------------------------------------
(* MathjaxFilter *)

kMathjaxBeginComment == "<!-- dynamically load mathjax"
kQtMathJaxConfigScript == "<script type=\"text/x-mathjax-config\"></script>"
kSessionProgramModeDesktop == "desktop"
kSessionProgramModeServer == "server"
APPLE == FALSE

\* A document is a sequence of pieces of text, each a tuple of strings: a
\* MathJax markup start token, the comment that begins the MathJax section, a
\* statement script.src = "http...MathJax.js..." at the beginning of a line,
\* or text that the regular expression does not match.
MathTokens == { <<"\\[">>, <<"\\(">>, <<"<math">> }

BeginComment == <<kMathjaxBeginComment>>

ScriptSrcPrefixes == {"script.src = ", "  script.src  = "}
HttpUrls == {"https://cdn/mathjax/latest/"}
MathJaxJs == {"MathJax.js", "MathJax.js?config=TeX"}

ScriptLines ==
    {<<pre, "\"", url, js, "\"">> :
        pre \in ScriptSrcPrefixes, url \in HttpUrls, js \in MathJaxJs}

OtherText == { <<"x">> }

Pieces == MathTokens \cup {BeginComment} \cup ScriptLines \cup OtherText

Documents == UNION {[1..n -> Pieces] : n \in 0..MaxDocLen}

\* The regular expression of the filter on one piece: the sub-matches 0, 1 and
\* 2 (here at 1, 2 and 3), or nothing when the piece does not match.
regex_match(piece) ==
    IF piece \in MathTokens \cup {BeginComment}
    THEN << <<piece, <<>>, <<>> >> >>
    ELSE IF /\ Len(piece) = 5
            /\ piece[1] \in ScriptSrcPrefixes
            /\ piece[2] = "\""
            /\ piece[3] \in HttpUrls
            /\ piece[4] \in MathJaxJs
            /\ piece[5] = "\""
    THEN << <<piece, <<piece[1]>>, <<piece[4]>> >> >>
    ELSE <<>>

\* A filter that emits the script whether or not markup was found.
substituteAlways(hasMathjax_, match, programMode) ==
    IF match[1] \in MathTokens
    THEN [result |-> match[1], hasMathjax_ |-> TRUE]
    ELSE IF match[1] = BeginComment
    THEN IF APPLE \/ programMode # kSessionProgramModeDesktop
         THEN [result |-> match[1], hasMathjax_ |-> hasMathjax_]
         ELSE [result |-> <<kQtMathJaxConfigScript, "\n">> \o match[1],
               hasMathjax_ |-> hasMathjax_]
    ELSE [result |-> match[2] \o <<"\"", "mathjax/">> \o match[3] \o <<"\"">>,
          hasMathjax_ |-> hasMathjax_]

\* A filter that points the script at MathJax.js without what follows it.
substituteBare(hasMathjax_, match, programMode) ==
    IF match[1] \in MathTokens
    THEN [result |-> match[1], hasMathjax_ |-> TRUE]
    ELSE IF match[1] = BeginComment
    THEN IF APPLE \/ programMode # kSessionProgramModeDesktop
         THEN [result |-> match[1], hasMathjax_ |-> hasMathjax_]
         ELSE [result |-> <<kQtMathJaxConfigScript, "\n">> \o match[1],
               hasMathjax_ |-> hasMathjax_]
    ELSE IF hasMathjax_
    THEN [result |-> match[2] \o <<"\"", "mathjax/", "MathJax.js", "\"">>,
          hasMathjax_ |-> hasMathjax_]
    ELSE [result |-> <<>>, hasMathjax_ |-> hasMathjax_]

\* MathjaxFilter::substitute: the replacement of a match, and the flag after.
substitute(hasMathjax_, match, programMode) ==
    IF match[1] \in MathTokens
    THEN [result |-> match[1], hasMathjax_ |-> TRUE]
    ELSE IF match[1] = BeginComment
    THEN IF APPLE \/ programMode # kSessionProgramModeDesktop
         THEN [result |-> match[1], hasMathjax_ |-> hasMathjax_]
         ELSE [result |-> <<kQtMathJaxConfigScript, "\n">> \o match[1],
               hasMathjax_ |-> hasMathjax_]
    ELSE IF hasMathjax_
    THEN [result |-> match[2] \o <<"\"", "mathjax/">> \o match[3] \o <<"\"">>,
          hasMathjax_ |-> hasMathjax_]
    ELSE [result |-> <<>>, hasMathjax_ |-> hasMathjax_]

\* boost::iostreams::regex_filter over the whole document, from the first
\* piece to the last: what each piece of the input has become.
RECURSIVE do_filter(_, _, _)
do_filter(src, hasMathjax_, programMode) ==
    IF src = <<>> THEN <<>>
    ELSE LET found == regex_match(Head(src)) IN
         IF found = <<>>
         THEN <<Head(src)>> \o do_filter(Tail(src), hasMathjax_, programMode)
         ELSE LET sub == substitute(hasMathjax_, found[1], programMode)
              IN <<sub.result>>
                   \o do_filter(Tail(src), sub.hasMathjax_, programMode)

\* A new MathjaxFilter has hasMathjax_ = false.
MathjaxFilter(src, programMode) == do_filter(src, FALSE, programMode)

ServeFiltered ==
    /\ ~served.done
    /\ served' = [done |-> TRUE,
                  out |-> MathjaxFilter(document, options.programMode)]
    /\ UNCHANGED <<jobs, proc, s_pCurrentRender_, events, rpc, disk,
                   httpVars, document, options>>

InitFilter ==
    /\ jobs = <<>>
    /\ proc = <<>>
    /\ s_pCurrentRender_ = 0
    /\ events = <<>>
    /\ rpc = [method |-> "none", error |-> FALSE, result |-> "none"]
    /\ disk = {}
    /\ request = noRequest /\ response = noResponse
    /\ document \in Documents
    /\ options \in [programMode : {kSessionProgramModeDesktop,
                                   kSessionProgramModeServer}]
    /\ served = notServed

NextFilter == ServeFiltered

SpecFilter == InitFilter /\ [][NextFilter]_vars

-----------------------------------------------------------------------------
(* The scan for the completion marker at the exit of the child *)

\* The lines a child may have written: the marker followed by a file name
\* (relative, with white space before it, with a carriage return after it,
\* absolute), a line that holds the marker after other text, and other text.
ScanLineKinds ==
    { completeMarker \o <<"a">>,
      completeMarker \o <<" ", "a">>,
      completeMarker \o <<"a", "\r">>,
      completeMarker \o <<"/", "b">>,
      <<"x">> \o completeMarker \o <<"a">>,
      <<"x">> }

\* The lines one after the other, each ended by a line feed.
RECURSIVE JoinLines(_)
JoinLines(lines) ==
    IF lines = <<>> THEN <<>>
    ELSE Head(lines) \o <<"\n">> \o JoinLines(Tail(lines))

ScanOutputs ==
    {JoinLines(lines) :
        lines \in UNION {[1..n -> ScanLineKinds] : n \in 0..MaxScanLines}}

\* A job whose child is running and has written the output in one chunk.
RunningWithOutput(targetFile, output) ==
    LET st0 == start([id |-> 1,
                      job |-> RenderRmdCtor(targetFile),
                      proc |-> [status |-> "none", pAllOutput |-> <<>>,
                                stopped |-> FALSE, exitStatus |-> 0],
                      events |-> <<>>],
                     TRUE, "ok")
    IN IF output = <<>> THEN st0
       ELSE onRenderOutput(st0, kCompileOutputNormal, output)

InitScan ==
    \E targetFile \in TargetFiles, output \in ScanOutputs :
        LET st == RunningWithOutput(targetFile, output) IN
        /\ jobs = <<st.job>>
        /\ proc = <<st.proc>>
        /\ s_pCurrentRender_ = 1
        /\ events = st.events
        /\ rpc = [method |-> "render_rmd", error |-> FALSE, result |-> TRUE]
        /\ disk \in SUBSET Files
        /\ request = noRequest /\ response = noResponse
        /\ document = <<>> /\ options = noOptions /\ served = notServed

NextScan ==
    \E exitStatus \in ExitStatuses :
        ChildExit(1, exitStatus) /\ UNCHANGED <<httpVars, filterVars>>

SpecScan == InitScan /\ [][NextScan]_vars

-----------------------------------------------------------------------------
(* Properties *)

JobIds == 1..Len(jobs)

Running(j) == jobs[j].isRunning_

\* Positions in the event queue of the events of kind e of job j.
EventsOf(j, e) ==
    {i \in 1..Len(events) : events[i].job = j /\ events[i].event = e}

\* A valid render_rmd request is handled in this step.
StartRequestStep ==
    \E file \in TargetFiles, formatOk \in BOOLEAN, launch \in Launches :
        renderRmd(TRUE, file, formatOk, launch)

\* C1: at most one render job is Running at any time, and the current-job
\* slot is overwritten only when the job it held is not Running.
C1_AtMostOneRunning ==
    /\ [](Cardinality({j \in JobIds : Running(j)}) <= 1)
    /\ [][s_pCurrentRender_' # s_pCurrentRender_ => ~isRenderRunning]_vars

\* The slot was overwritten: it holds the second job, which is Running and has
\* received output, while the job it held before has completed.
C1_Witness ==
    /\ Len(jobs) = 2
    /\ s_pCurrentRender_ = 2
    /\ Running(2) /\ ~Running(1)
    /\ proc[2].pAllOutput # <<>>
    /\ proc[1].status = "exited"

\* C2: a valid start request made while the current job is Running answers
\* false and changes nothing: not the slot, not any job (state, termination
\* flag), not the accumulated output or the child process, not the event queue.
C2_RejectedStartHasNoEffect ==
    [][isRenderRunning /\ StartRequestStep =>
            /\ rpc' = [method |-> "render_rmd", error |-> FALSE,
                       result |-> FALSE]
            /\ UNCHANGED <<jobs, proc, s_pCurrentRender_, events, disk>>]_vars

\* A start request has just been rejected while the running job had its
\* termination requested and output accumulated.
C2_Witness ==
    /\ rpc = [method |-> "render_rmd", error |-> FALSE, result |-> FALSE]
    /\ isRenderRunning
    /\ jobs[s_pCurrentRender_].terminationRequested_
    /\ proc[s_pCurrentRender_].pAllOutput # <<>>

\* Events are only ever appended to the queue.
EventsAppended ==
    /\ Len(events') >= Len(events)
    /\ SubSeq(events', 1, Len(events)) = events

C4_StartedFirst ==
    /\ [](\A j \in JobIds :
            /\ Cardinality(EventsOf(j, "rmd_render_started")) = 1
            /\ \A s \in EventsOf(j, "rmd_render_started") :
               \A i \in EventsOf(j, "rmd_render_output")
                        \cup EventsOf(j, "rmd_render_completed") : s < i)
    /\ [][~isRenderRunning /\ StartRequestStep =>
            /\ rpc' = [method |-> "render_rmd", error |-> FALSE,
                       result |-> TRUE]
            /\ Len(jobs') = Len(jobs) + 1
            /\ s_pCurrentRender_' = Len(jobs')]_vars

\* A start request was accepted for a job whose launch failed, after a job
\* that had streamed output.
C4_Witness ==
    /\ rpc = [method |-> "render_rmd", error |-> FALSE, result |-> TRUE]
    /\ Len(jobs) = 2
    /\ proc[1].pAllOutput # <<>>
    /\ proc[2].status = "norscript"
    /\ EventsOf(2, "rmd_render_output") # {}

\* C5: the RenderCompleted event of a job comes after every RenderOutput event
\* of that job, and since events are only appended no RenderOutput event of the
\* job is published once its RenderCompleted event is in the queue.
C5_CompletedAfterOutput ==
    /\ [](\A j \in JobIds :
            \A c \in EventsOf(j, "rmd_render_completed") :
            \A o \in EventsOf(j, "rmd_render_output") : o < c)
    /\ [][/\ EventsAppended
          /\ \A j \in JobIds :
                EventsOf(j, "rmd_render_completed") # {} =>
                    Cardinality(EventsOf(j, "rmd_render_output"))' =
                    Cardinality(EventsOf(j, "rmd_render_output"))]_vars

\* A job completed by the exit of its child after output on stdout, and a
\* job completed by a launch failure with its error output.
C5_Witness ==
    \E j1, j2 \in JobIds :
        /\ proc[j1].status = "exited"
        /\ \E o \in EventsOf(j1, "rmd_render_output") :
                events[o].type = kCompileOutputNormal
        /\ proc[j2].status = "norscript"
        /\ EventsOf(j2, "rmd_render_output") # {}

\* The event that reports the completion of job j.
CompletedEvent(j) ==
    events[CHOOSE i \in EventsOf(j, "rmd_render_completed") : TRUE]

\* The lines of the accumulated output of job j that start with the marker.
MarkerLines(j) ==
    LET lines == getlines(proc[j].pAllOutput) IN
    {n \in 1..Len(lines) : starts_with(lines[n], completeMarker)}

\* The file named by the first marker line of job j, resolved against the
\* directory of the target file; the empty path when there is no marker line.
MarkerFile(j) ==
    IF MarkerLines(j) = {} THEN <<>>
    ELSE LET lines == getlines(proc[j].pAllOutput)
             n == CHOOSE n \in MarkerLines(j) : \A m \in MarkerLines(j) : n <= m
             name == trim(SubSeq(lines[n], Len(completeMarker) + 1,
                                 Len(lines[n])))
         IN IF Head(name) = "/" THEN name
            ELSE parent(jobs[j].targetFile_) \o <<"/">> \o name

\* C6: a job whose launch failed (R binary not found, or spawn failed) is not
\* Running once render_rmd has returned, and its events are RenderStarted, one
\* error-type RenderOutput and right after it a RenderCompleted with
\* succeeded = false and no output file.
C6_LaunchFailureReported ==
    \A j \in JobIds :
        proc[j].status \in {"norscript", "spawnfailed"} =>
            /\ ~Running(j)
            /\ \E o \in EventsOf(j, "rmd_render_output") :
                /\ EventsOf(j, "rmd_render_output") = {o}
                /\ events[o].type = kCompileOutputError
                /\ EventsOf(j, "rmd_render_completed") = {o + 1}
                /\ ~events[o + 1].succeeded
                /\ events[o + 1].output_file = <<>>

\* C7: when the child has exited, RenderCompleted reports success exactly when
\* the exit status is 0 and the file of the first marker line exists on disk.
C7_SuccessIffExitZeroAndFileExists ==
    \A j \in JobIds :
        proc[j].status = "exited" =>
            /\ EventsOf(j, "rmd_render_completed") # {}
            /\ CompletedEvent(j).succeeded <=>
                    (proc[j].exitStatus = 0 /\ MarkerFile(j) \in disk)

\* One render succeeded (exit status 0, marker line, file on disk) and another
\* one with the same marker line failed on its exit status.
C7_Witness ==
    \E j1, j2 \in JobIds :
        /\ proc[j1].status = "exited" /\ proc[j1].exitStatus = 0
        /\ MarkerFile(j1) \in disk
        /\ CompletedEvent(j1).succeeded
        /\ proc[j2].status = "exited" /\ proc[j2].exitStatus # 0
        /\ MarkerFile(j2) \in disk
        /\ ~CompletedEvent(j2).succeeded

\* C8 as claimed: outputFile_ is set, and RenderCompleted carries an output
\* file, exactly when the exit status is 0, a marker line was found and the
\* file exists; a failed completion carries no output file; outputFile_ is
\* absent while the job is Running.
C8_OutputFileIffSuccess ==
    \A j \in JobIds :
        LET ok == /\ proc[j].status = "exited"
                  /\ proc[j].exitStatus = 0
                  /\ MarkerLines(j) # {}
                  /\ MarkerFile(j) \in disk
        IN /\ jobs[j].outputFile_ # <<>> <=> ok
           /\ Running(j) => jobs[j].outputFile_ = <<>>
           /\ EventsOf(j, "rmd_render_completed") # {} =>
                /\ CompletedEvent(j).output_file # <<>> <=> ok
                /\ ~CompletedEvent(j).succeeded =>
                        CompletedEvent(j).output_file = <<>>

\* C8 as amended: outputFile_ is set, and RenderCompleted carries an output
\* file, exactly when the child has exited and a marker line naming a file was
\* found in its output, whatever the exit status and whether or not the file
\* exists; it is the file of the first marker line; outputFile_ is absent while
\* the job is Running and after a launch failure.
C8_OutputFileIffMarker ==
    \A j \in JobIds :
        LET found == proc[j].status = "exited" /\ MarkerLines(j) # {} IN
        /\ jobs[j].outputFile_ # <<>> <=> found
        /\ found => jobs[j].outputFile_ = MarkerFile(j)
        /\ Running(j) => jobs[j].outputFile_ = <<>>
        /\ EventsOf(j, "rmd_render_completed") # {} =>
                /\ CompletedEvent(j).output_file # <<>> <=> found
                /\ CompletedEvent(j).output_file =
                        createAliasedPath(jobs[j].outputFile_)

\* A failed completion that carries an output file: the child printed the
\* marker line and exited with a non-zero status.
C8_Witness ==
    \E j \in JobIds :
        /\ proc[j].status = "exited" /\ proc[j].exitStatus # 0
        /\ MarkerLines(j) # {}
        /\ jobs[j].outputFile_ # <<>>
        /\ ~CompletedEvent(j).succeeded
        /\ CompletedEvent(j).output_file # <<>>

\* C9: a job whose termination was requested while it was Running reports
\* succeeded = false in its RenderCompleted event.
C9_TerminatedReportsFailure ==
    \A j \in JobIds :
        (jobs[j].terminationRequested_
            /\ EventsOf(j, "rmd_render_completed") # {}) =>
                ~CompletedEvent(j).succeeded

\* A terminate_render_rmd request is handled in this step (a step of it that
\* changes nothing at all is a stuttering step).
TerminateRequestStep ==
    rpc' # rpc /\ rpc'.method = "terminate_render_rmd"

\* C10: terminate_render_rmd always answers without error, publishes no event
\* and touches neither the slot nor any child process; when no job is Running
\* it changes no job; when a job is Running it sets the termination flag of
\* that job and nothing else, so the job stays Running.
C10_TerminateOnlySetsFlag ==
    [][TerminateRequestStep =>
        /\ ~rpc'.error
        /\ UNCHANGED <<proc, s_pCurrentRender_, events, disk>>
        /\ IF isRenderRunning
           THEN /\ jobs' = [jobs EXCEPT
                        ![s_pCurrentRender_].terminationRequested_ = TRUE]
                /\ jobs'[s_pCurrentRender_].isRunning_
           ELSE jobs' = jobs]_vars

\* terminate_render_rmd was the last request and it was made after the current
\* job had completed: the flag of that job is still clear.
C10_Witness ==
    /\ rpc.method = "terminate_render_rmd"
    /\ s_pCurrentRender_ # 0
    /\ proc[s_pCurrentRender_].status = "exited"
    /\ ~Running(s_pCurrentRender_)
    /\ ~jobs[s_pCurrentRender_].terminationRequested_

\* A poll of the child of job j whose answer is false.
PollAnswersFalse(j) == PollContinue(j) /\ proc'[j].stopped

\* C11: the continuation predicate answers true on every poll made before
\* termination was requested for the job, it answers false on the next poll
\* made once termination has been requested and on every later one, and the
\* flag is never cleared.
C11_ContinueUntilTerminationRequested ==
    /\ [](\A j \in JobIds :
            /\ proc[j].stopped => jobs[j].terminationRequested_
            /\ (ChildRunning(j) /\ ~jobs[j].terminationRequested_) =>
                    ~ENABLED PollAnswersFalse(j)
            /\ (ChildRunning(j) /\ jobs[j].terminationRequested_) =>
                    ENABLED PollAnswersFalse(j))
    /\ [][\A j \in JobIds :
            /\ jobs[j].terminationRequested_ => jobs'[j].terminationRequested_
            /\ proc[j].stopped => proc'[j].stopped
            /\ (PollContinue(j) /\ jobs[j].terminationRequested_) =>
                    proc'[j].stopped]_vars

\* The child of a job whose termination was requested has been polled and the
\* answer was false, after output had been received from it.
C11_Witness ==
    \E j \in JobIds :
        /\ jobs[j].terminationRequested_
        /\ proc[j].stopped
        /\ proc[j].pAllOutput # <<>>

\* C19: a start request whose format discovery fails is still accepted: it
\* answers true, RenderStarted carries an empty format name and empty options,
\* the child is launched exactly as after a successful discovery, and the
\* RenderCompleted event of every job carries the format of its RenderStarted
\* event.
C19_FormatFailureIsNotFatal ==
    /\ [](\A j \in JobIds :
            \A i \in EventsOf(j, "rmd_render_started")
                        \cup EventsOf(j, "rmd_render_completed") :
                events[i].output_format = jobs[j].outputFormat_)
    /\ [][\A file \in TargetFiles, launch \in Launches :
            (~isRenderRunning /\ renderRmd(TRUE, file, FALSE, launch)) =>
                LET n == Len(jobs) + 1 IN
                /\ rpc' = [method |-> "render_rmd", error |-> FALSE,
                           result |-> TRUE]
                /\ s_pCurrentRender_' = n
                /\ events'[Len(events) + 1].event = "rmd_render_started"
                /\ events'[Len(events) + 1].output_format =
                        [format_name |-> "", format_options |-> "null"]
                /\ launch = "ok" =>
                        (proc'[n].status = "live" /\ jobs'[n].isRunning_)
                /\ launch = "norscript" => proc'[n].status = "norscript"]_vars

\* A job whose format discovery failed has run to the exit of its child and
\* has published a successful completion with the empty format.
C19_Witness ==
    \E j \in JobIds :
        /\ jobs[j].outputFormat_.format_name = ""
        /\ proc[j].status = "exited"
        /\ CompletedEvent(j).succeeded
        /\ CompletedEvent(j).output_format.format_name = ""

\* C20: every job that is Running eventually leaves Running (and publishes
\* RenderCompleted), given that the process supervisor reports the exit of
\* every child; so the supervisor does not reject start requests for ever.
C20_RunningJobEventuallyCompletes ==
    isRenderRunning ~> ~isRenderRunning

\* The request asks for the output URL as it was published, for an output
\* file that has a path.
PublishedUrlRequested ==
    /\ request.outputFile # <<>>
    /\ request.uri = ClientUri(outputUrl(request.outputFile))

BelowPublishedUrl ==
    /\ request.outputFile # <<>>
    /\ starts_with(request.uri, ClientUri(outputUrl(request.outputFile)))

\* What the request asks for below the published output URL.
RemainingPath ==
    SubSeq(request.uri, Len(ClientUri(outputUrl(request.outputFile))) + 1,
           Len(request.uri))

\* The artifact the request is about exists.
ArtifactExists == exists(resolveAliasedPath(request.outputFile))

\* C13: when the artifact does not exist the response is a 404 whose message
\* names the missing file, whatever the remaining path is; no file is served
\* and no cache header is set.
C13_MissingArtifactIsNotFound ==
    (BelowPublishedUrl /\ ~ArtifactExists /\ response # noResponse) =>
        /\ response.kind = "error"
        /\ response.status = NotFound
        /\ response.message = request.outputFile \o <<" not found">>
        /\ response.file = <<>>
        /\ response.cache = "none"
        /\ ~response.filter

C13_Witness ==
    /\ BelowPublishedUrl /\ ~ArtifactExists
    /\ RemainingPath = kMathjaxSegment \o <<"/", "M">>
    /\ disk # {}
    /\ response.kind = "error"

\* C14: an existing artifact requested with an empty remaining path is served
\* itself, with caching disabled and through the filter; nothing else is
\* served through the filter.
C14_ArtifactServedFilteredNoCache ==
    /\ (PublishedUrlRequested /\ ArtifactExists /\ response # noResponse) =>
            response = setFile(resolveAliasedPath(request.outputFile),
                               TRUE, TRUE)
    /\ response.filter =>
            /\ PublishedUrlRequested /\ ArtifactExists
            /\ response.file = resolveAliasedPath(request.outputFile)

C14_Witness ==
    /\ PublishedUrlRequested /\ ArtifactExists
    /\ response.kind = "file" /\ response.filter
    /\ response.cache = "nocache"

\* The first segment of a relative path: what precedes its first slash.
FirstSegment(path) ==
    IF find(path, "/", 0) = npos THEN path
    ELSE substr(path, 0, find(path, "/", 0))

\* What follows the first segment and its slash.
AfterFirstSegment(path) ==
    IF find(path, "/", 0) = npos THEN <<>>
    ELSE substr(path, find(path, "/", 0) + 1, Len(path))

\* C15: for an existing artifact and a non-empty remaining path the response
\* is a cacheable, unfiltered file: the one named by what follows mathjax/
\* inside the MathJax directory exactly when the first segment of the
\* remaining path is mathjax, and otherwise the remaining path resolved in the
\* directory of the artifact, also when the first segment merely begins with
\* mathjax.
C15_MathResourceIffFirstSegment ==
    (/\ BelowPublishedUrl /\ ArtifactExists
     /\ RemainingPath # <<>>
     /\ response # noResponse
     /\ response.kind # "exception") =>
        IF FirstSegment(RemainingPath) = kMathjaxSegment
        THEN response = setCacheableFile(
                            complete(mathJaxDirectory,
                                     AfterFirstSegment(RemainingPath)))
        ELSE response = setCacheableFile(
                            childPath(parent(resolveAliasedPath(
                                                request.outputFile)),
                                      RemainingPath))

\* C16: every request ends in a response, a file or an error: the handler
\* never fails without one.
C16_EveryRequestGetsAResponse ==
    response # noResponse => response.kind \in {"file", "error"}

\* The document holds a MathJax markup start token before piece i.
MathTokenBefore(i) == \E k \in 1..(i - 1) : document[k] \in MathTokens

\* A script.src statement that loads MathJax.js, from wherever.
IsLoaderScript(piece) ==
    /\ Len(piece) = 5
    /\ piece[1] \in ScriptSrcPrefixes
    /\ piece[4] \in MathJaxJs

\* C17: when the document holds no MathJax markup start token the filtered
\* output holds no loader script line: each one of the input has become
\* nothing.
C17_NoMathNoLoaderScript ==
    (served.done /\ \A k \in 1..Len(document) : document[k] \notin MathTokens)
        => \A i \in 1..Len(document) :
              /\ ~IsLoaderScript(served.out[i])
              /\ document[i] \in ScriptLines => served.out[i] = <<>>

C17_Witness ==
    /\ served.done
    /\ \A k \in 1..Len(document) : document[k] \notin MathTokens
    /\ \E i, k \in 1..Len(document) :
          /\ document[i] \in ScriptLines
          /\ document[k] = BeginComment
    /\ options.programMode = kSessionProgramModeDesktop

\* C18: a loader script line that stands after a MathJax markup start token
\* is rewritten: the same script.src prefix, then as src the segment mathjax/
\* followed by MathJax.js and what followed it in the input, and no external
\* URL.
C18_LoaderScriptRewritten ==
    served.done =>
        \A i \in 1..Len(document) :
            (document[i] \in ScriptLines /\ MathTokenBefore(i)) =>
                /\ served.out[i] = <<document[i][1], "\"", "mathjax/",
                                     document[i][4], "\"">>
                /\ \A n \in 1..Len(served.out[i]) :
                        served.out[i][n] \notin HttpUrls

C18_Witness ==
    /\ served.done
    /\ \E i \in 1..Len(document) :
          /\ document[i] \in ScriptLines
          /\ document[i][4] = "MathJax.js?config=TeX"
          /\ document[i][1] = "  script.src  = "
          /\ MathTokenBefore(i)
          /\ served.out[i] # <<>>

\* C21: the event queue is a sequence of whole blocks, one per job: every
\* event between the RenderStarted and the RenderCompleted of a job is an
\* event of that job, and between the RenderStarted events of two jobs lies
\* the RenderCompleted of the earlier one; a start request made while a job
\* is Running publishes nothing.
C21_EventsInWholeJobBlocks ==
    /\ [](\A j \in JobIds :
            /\ \A s \in EventsOf(j, "rmd_render_started") :
               \A c \in EventsOf(j, "rmd_render_completed") :
               \A i \in (s + 1)..(c - 1) : events[i].job = j
            /\ \A s \in EventsOf(j, "rmd_render_started") :
               \A k \in JobIds :
               \A n \in EventsOf(k, "rmd_render_started") :
                  s < n => \E c \in EventsOf(j, "rmd_render_completed") :
                              s < c /\ c < n)
    /\ [][isRenderRunning /\ StartRequestStep => events' = events]_vars

\* Two whole blocks: a job that streamed output and had its termination
\* requested, and a second job whose child has exited after it.
C21_Witness ==
    /\ Len(jobs) = 2
    /\ EventsOf(1, "rmd_render_output") # {}
    /\ jobs[1].terminationRequested_
    /\ EventsOf(1, "rmd_render_completed") # {}
    /\ EventsOf(2, "rmd_render_completed") # {}
    /\ proc[2].status = "exited"

\* The texts of the RenderOutput events of job j among the first n events, in
\* the order of the queue, one after the other.
RECURSIVE PublishedOutput(_, _)
PublishedOutput(j, n) ==
    IF n = 0 THEN <<>>
    ELSE IF events[n].job = j /\ events[n].event = "rmd_render_output"
         THEN PublishedOutput(j, n - 1) \o events[n].output
         ELSE PublishedOutput(j, n - 1)

\* Job j has a child process, running or exited.
HasChild(j) == proc[j].status \in {"live", "exited"}

\* The step appends the chunk to the output accumulated for job j and
\* publishes it as one RenderOutput event of the given type.
ChunkBufferedAndPublished(j, type, output) ==
    /\ proc'[j].pAllOutput = proc[j].pAllOutput \o output
    /\ events' = Append(events, [event |-> "rmd_render_output", job |-> j,
                                 type |-> type, output |-> output])

\* C22: a chunk received on stdout or stderr is appended to the accumulated
\* output of the job and published in the same step as one RenderOutput
\* event, normal for stdout and error for stderr; the accumulated output of a
\* job with a child, while it runs and at its exit, is the texts of the job's
\* RenderOutput events one after the other, and it only grows at its end.
C22_OutputBufferedAndRepublished ==
    /\ [](\A j \in JobIds :
            HasChild(j) => proc[j].pAllOutput = PublishedOutput(j, Len(events)))
    /\ [][\A j \in JobIds :
            /\ \A output \in Chunks :
                /\ onStdout(j, output) =>
                     ChunkBufferedAndPublished(j, kCompileOutputNormal, output)
                /\ onStderr(j, output) =>
                     ChunkBufferedAndPublished(j, kCompileOutputError, output)
            /\ Len(proc'[j].pAllOutput) >= Len(proc[j].pAllOutput)
            /\ SubSeq(proc'[j].pAllOutput, 1, Len(proc[j].pAllOutput))
                  = proc[j].pAllOutput]_vars

\* A child has exited after a chunk on stderr followed by a chunk on stdout.
C22_Witness ==
    \E j \in JobIds :
        /\ proc[j].status = "exited"
        /\ \E e, n \in EventsOf(j, "rmd_render_output") :
              /\ e < n
              /\ events[e].type = kCompileOutputError
              /\ events[n].type = kCompileOutputNormal
              /\ events[e].output # events[n].output

\* The lines of the output accumulated for job j.
OutputLines(j) == getlines(proc[j].pAllOutput)

\* The first line of the output of job j that starts with the marker, 0 when
\* there is none.
FirstMarkerLine(j) ==
    IF \E n \in 1..Len(OutputLines(j)) :
            starts_with(OutputLines(j)[n], completeMarker)
    THEN CHOOSE n \in 1..Len(OutputLines(j)) :
            /\ starts_with(OutputLines(j)[n], completeMarker)
            /\ \A k \in 1..(n - 1) :
                    ~starts_with(OutputLines(j)[k], completeMarker)
    ELSE 0

\* What follows the marker on line n of the output of job j.
AfterMarker(j, n) ==
    SubSeq(OutputLines(j)[n], Len(completeMarker) + 1, Len(OutputLines(j)[n]))

\* A file name as the scan resolves it: an absolute one as it is, a relative
\* one in the directory of the target file.
ResolvedName(j, fileName) ==
    IF fileName # <<>> /\ Head(fileName) = "/"
    THEN fileName
    ELSE parent(jobs[j].targetFile_) \o <<"/">> \o fileName

\* C23: at the exit of the child the output file is taken from the first
\* line of the accumulated output that starts with the marker: what follows
\* the marker on that line with only the white space at its end removed,
\* absolute as it is and relative in the directory of the target file; with
\* no such line there is no output file.
C23_FirstMarkerLineTrailingTrim ==
    \A j \in JobIds :
        proc[j].status = "exited" =>
            jobs[j].outputFile_ =
                IF FirstMarkerLine(j) = 0 THEN <<>>
                ELSE ResolvedName(j,
                        trim_right(AfterMarker(j, FirstMarkerLine(j))))

\* C24: a loader script line is removed only when the document holds no
\* MathJax markup start token: in a document that holds one, before or after
\* the script line, every loader script line is emitted, rewritten to the
\* mathjax/ segment.
C24_LoaderScriptKeptWhenMathAnywhere ==
    (served.done /\ \E k \in 1..Len(document) : document[k] \in MathTokens)
        => \A i \in 1..Len(document) :
              document[i] \in ScriptLines =>
                  served.out[i] = <<document[i][1], "\"", "mathjax/",
                                    document[i][4], "\"">>

\* C25: the termination flag is a field of one job. A job that has just been
\* created has it clear, whatever was requested before, so that a poll of its
\* child cannot answer false; the flag of a job becomes set only in a
\* terminate request made while that job is the current one and Running, and
\* such a request sets the flag of no other job.
C25_TerminationFlagPerJob ==
    /\ [][Len(jobs') > Len(jobs) =>
            /\ ~jobs'[Len(jobs')].terminationRequested_
            /\ onRenderContinue(jobs'[Len(jobs')])
            /\ ~proc'[Len(jobs')].stopped
            /\ \A j \in JobIds :
                  jobs'[j].terminationRequested_ =
                        jobs[j].terminationRequested_]_vars
    /\ [][\A j \in JobIds :
            (~jobs[j].terminationRequested_ /\ jobs'[j].terminationRequested_)
                => /\ TerminateRequestStep
                   /\ s_pCurrentRender_ = j
                   /\ Running(j)]_vars
    /\ [](\A j \in JobIds :
            (ChildRunning(j) /\ ~jobs[j].terminationRequested_) =>
                ENABLED (PollContinue(j) /\ ~proc'[j].stopped))

\* The first job had its termination requested and has completed; a second
\* job runs, its child has written output, and its flag is clear.
C25_Witness ==
    /\ Len(jobs) = 2
    /\ jobs[1].terminationRequested_
    /\ ~Running(1)
    /\ ChildRunning(2)
    /\ proc[2].pAllOutput # <<>>
    /\ ~jobs[2].terminationRequested_
    /\ ~proc[2].stopped

====
